---- MODULE Spec2Model ----
(***************************************************************************)
(* Model of 01_Simple_Conversational_Agent.ipynb: the process-wide `store` *)
(* of chat histories, get_chat_history (lookup-or-create), the prompt      *)
(* template, and chain_with_history (RunnableWithMessageHistory wrapping   *)
(* `prompt | llm`), invoked by several callers.                            *)
(*                                                                         *)
(* A ChatMessageHistory is an object: `heap` holds the message list of     *)
(* every object ever created, `store` maps a session id to the object it   *)
(* currently names (0: the key is not in the dict).  The notebook takes no *)
(* lock anywhere, so every statement of get_chat_history and every step of *)
(* an invocation is a separate action and callers interleave freely.       *)
(***************************************************************************)
EXTENDS Integers, Sequences, FiniteSets, TLC

\* ---- bounds of the model ------------------------------------------------
\* Total number of calls (invocations of chain_with_history and bare calls of
\* get_chat_history) made during one run.
MaxCalls == 2

\* Concurrent callers, session ids, user inputs and model replies.
Procs   == {"p1", "p2"}
Keys    == {"user_123", "user_456"}
Inputs  == {"", "Hello! How are you?"}
Replies == {"Hello! ...", "Your previous message was ..."}

\* ---- program constants --------------------------------------------------
\* prompt: ("system", "You are a helpful AI assistant.")
SystemInstruction == "You are a helpful AI assistant."

NoReply == "<none>"
NoKey   == "<none>"

VARIABLES
  store,     \* session id -> object id of its ChatMessageHistory, 0 if absent
  heap,      \* heap[o]: the `messages` list of history object o
  pc,        \* per caller: position inside the current call
  kind,      \* per caller: "turn" (chain_with_history.invoke) or "lookup"
  key,       \* per caller: session_id of the current call
  input,     \* per caller: the "input" of the current call
  call,      \* per caller: index of the current call in `calls`
  ref,       \* per caller: history object returned by get_chat_history
  snapshot,  \* per caller: messages read from the history for the prompt
  prompt,    \* per caller: messages produced by the prompt template
  reply,     \* per caller: content of the AIMessage the model returned
  calls,     \* history of calls in call order (bookkeeping for the properties)
  overlap,   \* keys on which two calls were ever in flight at once
  before,    \* per caller: the key's messages when the current call began
  invoked    \* per caller: model calls made so far by the current call

vars == <<store, heap, pc, kind, key, input, call, ref, snapshot, prompt,
          reply, calls, overlap, before, invoked>>

\* A message: role, content, and the call that created the message object
\* (0 for the template's system message).
Msg(role, content, c) == [role |-> role, content |-> content, call |-> c]

HumanMessage(p) == Msg("human", input[p], call[p])

AIMessage(p) == Msg("ai", reply[p], call[p])

\* Positions at which a caller holds no call in progress.
Terminal == {"IDLE", "RETURNED", "DONE", "FAILED"}

InFlight(p) == pc[p] \notin Terminal

\* store[session_id]'s messages; an absent key has none.
Messages(k) == IF store[k] = 0 THEN <<>> ELSE heap[store[k]]

\* Faulty variant of Assemble: the new input is placed ahead of the history.
Assemble_InputFirst(instr, h, u, c) ==
  <<Msg("system", instr, 0), Msg("human", u, c)>> \o h

\* prompt = ChatPromptTemplate.from_messages([("system", ...),
\*    MessagesPlaceholder("history"), ("human", "{input}")]) formatted with
\* history = h and input = u, on behalf of call c.
Assemble(instr, h, u, c) ==
  <<Msg("system", instr, 0)>> \o h \o <<Msg("human", u, c)>>

Init ==
  /\ store = [k \in Keys |-> 0]
  /\ heap = <<>>
  /\ pc = [p \in Procs |-> "IDLE"]
  /\ kind = [p \in Procs |-> "turn"]
  /\ key = [p \in Procs |-> NoKey]
  /\ input = [p \in Procs |-> ""]
  /\ call = [p \in Procs |-> 0]
  /\ ref = [p \in Procs |-> 0]
  /\ snapshot = [p \in Procs |-> <<>>]
  /\ prompt = [p \in Procs |-> <<>>]
  /\ reply = [p \in Procs |-> NoReply]
  /\ calls = <<>>
  /\ overlap = {}
  /\ before = [p \in Procs |-> <<>>]
  /\ invoked = [p \in Procs |-> 0]

\* A caller begins a call: chain_with_history.invoke({"input": u},
\* config={"configurable": {"session_id": k}}) or get_chat_history(k).
Begin(p, k, u, kd) ==
  /\ pc[p] \in Terminal
  /\ Len(calls) < MaxCalls
  /\ pc' = [pc EXCEPT ![p] = "START"]
  /\ kind' = [kind EXCEPT ![p] = kd]
  /\ key' = [key EXCEPT ![p] = k]
  /\ input' = [input EXCEPT ![p] = u]
  /\ call' = [call EXCEPT ![p] = Len(calls) + 1]
  /\ ref' = [ref EXCEPT ![p] = 0]
  /\ snapshot' = [snapshot EXCEPT ![p] = <<>>]
  /\ prompt' = [prompt EXCEPT ![p] = <<>>]
  /\ reply' = [reply EXCEPT ![p] = NoReply]
  /\ calls' = Append(calls, [key |-> k, input |-> u, kind |-> kd,
                             result |-> "running"])
  /\ overlap' = IF \E q \in Procs \ {p} : InFlight(q) /\ key[q] = k
                THEN overlap \cup {k} ELSE overlap
  /\ before' = [before EXCEPT ![p] = Messages(k)]
  /\ invoked' = [invoked EXCEPT ![p] = 0]
  /\ UNCHANGED <<store, heap>>

Invoke(p) == \E k \in Keys, u \in Inputs : Begin(p, k, u, "turn")

Lookup(p) == \E k \in Keys : Begin(p, k, "", "lookup")

\* Faulty variant of GetCheck: a missing key is an error (as `store[session_id]`
\* alone would raise KeyError) instead of the trigger for creation.
GetCheck_KeyError(p) ==
  /\ pc[p] = "START"
  /\ pc' = [pc EXCEPT ![p] = IF store[key[p]] = 0 THEN "FAILED"
                                                  ELSE "GET_RETURN"]
  /\ calls' = IF store[key[p]] = 0
              THEN [calls EXCEPT ![call[p]].result = "failed"]
              ELSE calls
  /\ UNCHANGED <<store, heap, kind, key, input, call, ref, snapshot, prompt,
                 reply, overlap, before, invoked>>

\* Faulty variant of GetCheck: one global lock, held by a call from its lookup
\* to its end, makes every other caller wait.
GetCheck_GlobalLock(p) ==
  /\ pc[p] = "START"
  /\ \A q \in Procs \ {p} : pc[q] \in Terminal \cup {"START"}
  /\ pc' = [pc EXCEPT ![p] = IF store[key[p]] = 0 THEN "GET_INSERT"
                                                  ELSE "GET_RETURN"]
  /\ UNCHANGED <<store, heap, kind, key, input, call, ref, snapshot, prompt,
                 reply, calls, overlap, before, invoked>>

\* Faulty variant of GetCheck: the membership test is left out and a history
\* is created on every call.
GetCheck_AlwaysCreate(p) ==
  /\ pc[p] = "START"
  /\ pc' = [pc EXCEPT ![p] = "GET_INSERT"]
  /\ UNCHANGED <<store, heap, kind, key, input, call, ref, snapshot, prompt,
                 reply, calls, overlap, before, invoked>>

\* get_chat_history: `if session_id not in store:`
GetCheck(p) ==
  /\ pc[p] = "START"
  /\ pc' = [pc EXCEPT ![p] = IF store[key[p]] = 0 THEN "GET_INSERT"
                                                  ELSE "GET_RETURN"]
  /\ UNCHANGED <<store, heap, kind, key, input, call, ref, snapshot, prompt,
                 reply, calls, overlap, before, invoked>>

\* Faulty variant of GetInsert: the store is rebuilt with the new entry alone.
GetInsert_Rebuilds(p) ==
  /\ pc[p] = "GET_INSERT"
  /\ heap' = Append(heap, <<>>)
  /\ store' = [k \in Keys |-> IF k = key[p] THEN Len(heap) + 1 ELSE 0]
  /\ pc' = [pc EXCEPT ![p] = "GET_RETURN"]
  /\ UNCHANGED <<kind, key, input, call, ref, snapshot, prompt, reply, calls,
                 overlap, before, invoked>>

\* get_chat_history: `store[session_id] = ChatMessageHistory()`
GetInsert(p) ==
  /\ pc[p] = "GET_INSERT"
  /\ heap' = Append(heap, <<>>)
  /\ store' = [store EXCEPT ![key[p]] = Len(heap) + 1]
  /\ pc' = [pc EXCEPT ![p] = "GET_RETURN"]
  /\ UNCHANGED <<kind, key, input, call, ref, snapshot, prompt, reply, calls,
                 overlap, before, invoked>>

\* Faulty variant of GetReturn: one history is shared by every session id.
GetReturn_SharedHistory(p) ==
  /\ pc[p] = "GET_RETURN"
  /\ ref' = [ref EXCEPT ![p] = 1]
  /\ pc' = [pc EXCEPT ![p] = IF kind[p] = "lookup" THEN "RETURNED"
                                                   ELSE "HISTORY_FETCHED"]
  /\ calls' = IF kind[p] = "lookup"
              THEN [calls EXCEPT ![call[p]].result = "returned"]
              ELSE calls
  /\ UNCHANGED <<store, heap, kind, key, input, call, snapshot, prompt,
                 reply, overlap, before, invoked>>

\* get_chat_history: `return store[session_id]`.  A bare lookup ends here; an
\* invocation keeps the object as its message history.
GetReturn(p) ==
  /\ pc[p] = "GET_RETURN"
  /\ ref' = [ref EXCEPT ![p] = store[key[p]]]
  /\ pc' = [pc EXCEPT ![p] = IF kind[p] = "lookup" THEN "RETURNED"
                                                   ELSE "HISTORY_FETCHED"]
  /\ calls' = IF kind[p] = "lookup"
              THEN [calls EXCEPT ![call[p]].result = "returned"]
              ELSE calls
  /\ UNCHANGED <<store, heap, kind, key, input, call, snapshot, prompt,
                 reply, overlap, before, invoked>>

\* The wrapper reads the history's messages and the chain's first stage,
\* `prompt`, formats them with the input.
AssemblePrompt(p) ==
  /\ pc[p] = "HISTORY_FETCHED"
  /\ snapshot' = [snapshot EXCEPT ![p] = heap[ref[p]]]
  /\ prompt' = [prompt EXCEPT ![p] =
                  Assemble(SystemInstruction, heap[ref[p]], input[p], call[p])]
  /\ pc' = [pc EXCEPT ![p] = "PROMPT_ASSEMBLED"]
  /\ UNCHANGED <<store, heap, kind, key, input, call, ref, reply, calls,
                 overlap, before, invoked>>

\* Faulty variant of ModelReply: the reply is returned without being recorded.
ModelReply_NotRecorded(p) ==
  /\ pc[p] = "PROMPT_ASSEMBLED"
  /\ invoked' = [invoked EXCEPT ![p] = @ + 1]
  /\ \E r \in Replies :
       /\ reply' = [reply EXCEPT ![p] = r]
       /\ calls' = [calls EXCEPT ![call[p]].result = r]
  /\ pc' = [pc EXCEPT ![p] = "DONE"]
  /\ snapshot' = [snapshot EXCEPT ![p] = <<>>]
  /\ prompt' = [prompt EXCEPT ![p] = <<>>]
  /\ UNCHANGED <<store, heap, kind, key, input, call, ref, overlap, before>>

\* chain = prompt | llm: the prompt is submitted to the model, the caller is
\* suspended at PROMPT_ASSEMBLED until the model answers.  Here it returns an
\* AIMessage.
ModelReply(p) ==
  /\ pc[p] = "PROMPT_ASSEMBLED"
  /\ invoked' = [invoked EXCEPT ![p] = @ + 1]
  /\ \E r \in Replies : reply' = [reply EXCEPT ![p] = r]
  /\ pc' = [pc EXCEPT ![p] = "MODEL_INVOKED"]
  /\ UNCHANGED <<store, heap, kind, key, input, call, ref, snapshot, prompt,
                 calls, overlap, before>>

\* Faulty variant of ModelFail: the failed invocation's session entry is
\* removed from the store.
ModelFail_DropsEntry(p) ==
  /\ pc[p] = "PROMPT_ASSEMBLED"
  /\ invoked' = [invoked EXCEPT ![p] = @ + 1]
  /\ pc' = [pc EXCEPT ![p] = "FAILED"]
  /\ store' = [store EXCEPT ![key[p]] = 0]
  /\ snapshot' = [snapshot EXCEPT ![p] = <<>>]
  /\ prompt' = [prompt EXCEPT ![p] = <<>>]
  /\ calls' = [calls EXCEPT ![call[p]].result = "failed"]
  /\ UNCHANGED <<heap, kind, key, input, call, ref, reply, overlap, before>>

\* Faulty variant of ModelFail: a failed model call is silently retried.
ModelFail_Retries(p) ==
  /\ pc[p] = "PROMPT_ASSEMBLED"
  /\ invoked' = [invoked EXCEPT ![p] = @ + 1]
  /\ UNCHANGED <<store, heap, pc, kind, key, input, call, ref, snapshot,
                 prompt, reply, calls, overlap, before>>

\* Faulty variant of ModelFail: the user's message is recorded although the
\* model failed.
ModelFail_RecordsUser(p) ==
  /\ pc[p] = "PROMPT_ASSEMBLED"
  /\ invoked' = [invoked EXCEPT ![p] = @ + 1]
  /\ heap' = [heap EXCEPT ![ref[p]] = Append(@, HumanMessage(p))]
  /\ pc' = [pc EXCEPT ![p] = "FAILED"]
  /\ snapshot' = [snapshot EXCEPT ![p] = <<>>]
  /\ prompt' = [prompt EXCEPT ![p] = <<>>]
  /\ calls' = [calls EXCEPT ![call[p]].result = "failed"]
  /\ UNCHANGED <<store, kind, key, input, call, ref, reply, overlap, before>>

\* The model call raises (error, timeout, cancellation): the exception
\* propagates out of invoke and the wrapper's on-end step does not run.
ModelFail(p) ==
  /\ pc[p] = "PROMPT_ASSEMBLED"
  /\ invoked' = [invoked EXCEPT ![p] = @ + 1]
  /\ pc' = [pc EXCEPT ![p] = "FAILED"]
  /\ snapshot' = [snapshot EXCEPT ![p] = <<>>]
  /\ prompt' = [prompt EXCEPT ![p] = <<>>]
  /\ calls' = [calls EXCEPT ![call[p]].result = "failed"]
  /\ UNCHANGED <<store, heap, kind, key, input, call, ref, reply, overlap,
                 before>>

\* Faulty variant of AppendUser: before recording, an invocation waits until
\* no other call on its key is in progress.
AppendUser_WaitsForPeer(p) ==
  /\ pc[p] = "MODEL_INVOKED"
  /\ \A q \in Procs \ {p} : ~(InFlight(q) /\ key[q] = key[p])
  /\ heap' = [heap EXCEPT ![ref[p]] = Append(@, HumanMessage(p))]
  /\ pc' = [pc EXCEPT ![p] = "USER_APPENDED"]
  /\ UNCHANGED <<store, kind, key, input, call, ref, snapshot, prompt, reply,
                 calls, overlap, before, invoked>>

\* Faulty variant of AppendUser: an input without text is not recorded.
AppendUser_SkipsEmpty(p) ==
  /\ pc[p] = "MODEL_INVOKED"
  /\ heap' = IF input[p] = "" THEN heap
             ELSE [heap EXCEPT ![ref[p]] = Append(@, HumanMessage(p))]
  /\ pc' = [pc EXCEPT ![p] = "USER_APPENDED"]
  /\ UNCHANGED <<store, kind, key, input, call, ref, snapshot, prompt, reply,
                 calls, overlap, before, invoked>>

\* Faulty variant of AppendUser: the message is put at the head of the list.
AppendUser_Prepend(p) ==
  /\ pc[p] = "MODEL_INVOKED"
  /\ heap' = [heap EXCEPT ![ref[p]] = <<HumanMessage(p)>> \o @]
  /\ pc' = [pc EXCEPT ![p] = "USER_APPENDED"]
  /\ UNCHANGED <<store, kind, key, input, call, ref, snapshot, prompt, reply,
                 calls, overlap, before, invoked>>

\* The wrapper's on-end step adds [input message, output message] to the
\* history it fetched; the history appends them one at a time.  First the
\* HumanMessage.
AppendUser(p) ==
  /\ pc[p] = "MODEL_INVOKED"
  /\ heap' = [heap EXCEPT ![ref[p]] = Append(@, HumanMessage(p))]
  /\ pc' = [pc EXCEPT ![p] = "USER_APPENDED"]
  /\ UNCHANGED <<store, kind, key, input, call, ref, snapshot, prompt, reply,
                 calls, overlap, before, invoked>>

\* Then the AIMessage; the on-end step is over and its locals are gone.
AppendAssistant(p) ==
  /\ pc[p] = "USER_APPENDED"
  /\ heap' = [heap EXCEPT ![ref[p]] = Append(@, AIMessage(p))]
  /\ pc' = [pc EXCEPT ![p] = "HISTORY_UPDATED"]
  /\ snapshot' = [snapshot EXCEPT ![p] = <<>>]
  /\ prompt' = [prompt EXCEPT ![p] = <<>>]
  /\ UNCHANGED <<store, kind, key, input, call, ref, reply, calls, overlap,
                 before, invoked>>

\* Faulty variant of ReturnReply: the caller is handed a text other than the
\* one recorded.
ReturnReply_ReturnsOther(p) ==
  /\ pc[p] = "HISTORY_UPDATED"
  /\ pc' = [pc EXCEPT ![p] = "DONE"]
  /\ \E r \in Replies \ {reply[p]} :
       calls' = [calls EXCEPT ![call[p]].result = r]
  /\ UNCHANGED <<store, heap, kind, key, input, call, ref, snapshot, prompt,
                 reply, overlap, before, invoked>>

\* invoke returns the AIMessage to the caller (response1, response2).
ReturnReply(p) ==
  /\ pc[p] = "HISTORY_UPDATED"
  /\ pc' = [pc EXCEPT ![p] = "DONE"]
  /\ calls' = [calls EXCEPT ![call[p]].result = reply[p]]
  /\ UNCHANGED <<store, heap, kind, key, input, call, ref, snapshot, prompt,
                 reply, overlap, before, invoked>>

Next ==
  \E p \in Procs :
    \/ Invoke(p)
    \/ Lookup(p)
    \/ GetCheck(p)
    \/ GetInsert(p)
    \/ GetReturn(p)
    \/ AssemblePrompt(p)
    \/ ModelReply(p)
    \/ ModelFail(p)
    \/ AppendUser(p)
    \/ AppendAssistant(p)
    \/ ReturnReply(p)

\* The next step of caller p's call in progress, whichever it is.
Step(p) ==
  \/ GetCheck(p)
  \/ GetInsert(p)
  \/ GetReturn(p)
  \/ AssemblePrompt(p)
  \/ ModelReply(p)
  \/ ModelFail(p)
  \/ AppendUser(p)
  \/ AppendAssistant(p)
  \/ ReturnReply(p)

Spec == Init /\ [][Next]_vars

\* The same program when every caller's thread keeps being scheduled and the
\* model answers every prompt it is given, with a reply or with a failure.
FairSpec == Spec /\ \A p \in Procs : WF_vars(Step(p))

\* ---- definitions used by the properties ---------------------------------

\* Some call on key k is in progress.
Busy(k) == \E p \in Procs : InFlight(p) /\ key[p] = k

\* Call i was an invocation that returned a reply to its caller.
Completed(i) == calls[i].kind = "turn" /\ calls[i].result \in Replies

\* The (user message, assistant reply) pair of completed call i, built from
\* what its caller passed in and got back.
TurnPair(i) ==
  <<Msg("human", calls[i].input, i), Msg("ai", calls[i].result, i)>>

\* The pairs of the completed invocations on key k among the first n calls, in
\* call order.
RECURSIVE PairsInCallOrder(_, _)
PairsInCallOrder(k, n) ==
  IF n = 0 THEN <<>>
  ELSE PairsInCallOrder(k, n - 1)
         \o (IF calls[n].key = k /\ Completed(n) THEN TurnPair(n) ELSE <<>>)

\* The invocations on key k that have returned a reply.
CompletedOn(k) == {i \in DOMAIN calls : calls[i].key = k /\ Completed(i)}

\* Some history object holds a message created by call c.
Recorded(c) ==
  \E o \in DOMAIN heap : \E i \in DOMAIN heap[o] : heap[o][i].call = c

\* h consists of (human, ai) pairs, each pair made by one call.
Paired(h) ==
  /\ Len(h) % 2 = 0
  /\ \A i \in DOMAIN h :
       i % 2 = 1 => /\ h[i].role = "human"
                    /\ h[i + 1].role = "ai"
                    /\ h[i + 1].call = h[i].call

\* ---- C1 -----------------------------------------------------------------
\* C1: when the calls on a session key were made one after another (no two of
\* them ever in flight together) and none is in progress, the key's history
\* is exactly the (user message, assistant reply) pairs of its completed
\* invocations, in the order the invocations were called.
C1_OrderedPairs ==
  \A k \in Keys :
    (k \notin overlap /\ ~Busy(k)) =>
      Messages(k) = PairsInCallOrder(k, Len(calls))

\* Two invocations on one key, one after the other, both completed: four
\* messages.
C1_Witness ==
  \E k \in Keys :
    /\ k \notin overlap
    /\ ~Busy(k)
    /\ Cardinality(CompletedOn(k)) = 2
    /\ Len(Messages(k)) = 4

\* ---- C2 -----------------------------------------------------------------
\* C2: the step in which the model call of an invocation fails changes no
\* history and no store entry and hands the caller a failure; if no other
\* call on the key ran alongside, the key's history is what it was when the
\* invocation began; and no message of a failed invocation is ever in any
\* history.
C2_FailureLeavesHistory ==
  [][\A p \in Procs :
       pc'[p] = "FAILED" =>
         /\ ~Recorded(call[p])'
         /\ pc[p] # "FAILED" =>
              /\ heap' = heap
              /\ store' = store
              /\ calls'[call[p]].result = "failed"
              /\ key[p] \notin overlap => Messages(key[p])' = before[p]]_vars

\* An invocation failed on a key whose history already held a completed turn.
C2_Witness ==
  \E p \in Procs :
    /\ pc[p] = "FAILED"
    /\ key[p] \notin overlap
    /\ Len(before[p]) = 2
    /\ Messages(key[p]) = before[p]

\* ---- C3 -----------------------------------------------------------------
\* C3: once every invocation has returned, every history consists of
\* (user message, its own assistant reply) pairs.
C3_Pairing ==
  (\A p \in Procs : ~InFlight(p)) => \A k \in Keys : Paired(Messages(k))

\* ---- C4 -----------------------------------------------------------------
\* C4: a key that has a history keeps that same history object: no step
\* replaces an existing entry of the store.
C4_NeverReplaced ==
  [][\A k \in Keys : store[k] # 0 => store'[k] = store[k]]_vars

\* ---- C5 -----------------------------------------------------------------
\* C5: every message in a key's history was created by an invocation made
\* with that key; and a key whose only call is one completed invocation has
\* exactly two messages, whatever happens on other keys.
C5_Isolation ==
  \A k \in Keys :
    /\ \A i \in DOMAIN Messages(k) :
         /\ Messages(k)[i].call \in DOMAIN calls
         /\ calls[Messages(k)[i].call].key = k
    /\ ( /\ Cardinality({i \in DOMAIN calls : calls[i].key = k}) = 1
         /\ Cardinality(CompletedOn(k)) = 1 )
       => Len(Messages(k)) = 2

\* One key's invocation has completed with two messages while an invocation
\* on the other key is halfway through recording its pair.
C5_Witness ==
  \E p, q \in Procs :
    /\ key[p] # key[q]
    /\ pc[p] = "DONE"
    /\ pc[q] = "USER_APPENDED"
    /\ Len(Messages(key[p])) = 2
    /\ Len(Messages(key[q])) = 1

\* ---- C6 -----------------------------------------------------------------
\* Invocation p has fetched its history and has not yet finished recording
\* its pair.
InCritical(p) ==
  /\ kind[p] = "turn"
  /\ pc[p] \in {"HISTORY_FETCHED", "PROMPT_ASSEMBLED", "MODEL_INVOKED",
                "USER_APPENDED"}

\* C6: never are two invocations with the same session key both between
\* fetching the history and completing the append of their pair.
C6_Serialized ==
  \A p, q \in Procs :
    (p # q /\ key[p] = key[q]) => ~(InCritical(p) /\ InCritical(q))

\* ---- C7 -----------------------------------------------------------------
\* C7: the step that completes an invocation's append leaves its history
\* equal to the messages that invocation read for its prompt, followed by its
\* user message and its assistant reply.
C7_PrefixPlusTurn ==
  [][\A p \in Procs :
       (pc[p] = "USER_APPENDED" /\ pc'[p] = "HISTORY_UPDATED") =>
         heap'[ref[p]] = snapshot[p] \o <<HumanMessage(p), AIMessage(p)>>]_vars

\* ---- C8 -----------------------------------------------------------------
\* C8: the prompt of an invocation is the system instruction, then every
\* message the invocation read from its history, each at its original
\* position, then one human message carrying the new input; and, when no
\* other call ran on the key, the messages read are the key's whole history.
C8_PromptShape ==
  \A p \in Procs :
    pc[p] = "PROMPT_ASSEMBLED" =>
      /\ Len(prompt[p]) = Len(snapshot[p]) + 2
      /\ prompt[p][1].role = "system"
      /\ prompt[p][1].content = "You are a helpful AI assistant."
      /\ \A i \in DOMAIN snapshot[p] : prompt[p][i + 1] = snapshot[p][i]
      /\ prompt[p][Len(prompt[p])].role = "human"
      /\ prompt[p][Len(prompt[p])].content = input[p]
      /\ key[p] \notin overlap => snapshot[p] = Messages(key[p])

\* The prompt of a second turn: system, the first turn's pair, the new input.
C8_Witness ==
  \E p \in Procs :
    /\ pc[p] = "PROMPT_ASSEMBLED"
    /\ Len(prompt[p]) = 4
    /\ prompt[p][2].role = "human"
    /\ prompt[p][3].role = "ai"

\* ---- C9 -----------------------------------------------------------------
\* The logical state of the runner at each position of an invocation:
\* 0 START, 1 HISTORY_FETCHED, 2 PROMPT_ASSEMBLED, 3 MODEL_INVOKED (the reply
\* is in hand, the pair is being recorded), 4 HISTORY_UPDATED, 5 DONE.
Stage(s) ==
  CASE s \in {"START", "GET_INSERT", "GET_RETURN"} -> 0
    [] s = "HISTORY_FETCHED" -> 1
    [] s = "PROMPT_ASSEMBLED" -> 2
    [] s \in {"MODEL_INVOKED", "USER_APPENDED"} -> 3
    [] s = "HISTORY_UPDATED" -> 4
    [] s = "DONE" -> 5
    [] OTHER -> 0 - 1

\* C9: an invocation moves only to the next logical state or to FAILED; a
\* history's messages change only in a step of an invocation that holds the
\* model's reply; and an invocation is DONE only with its user message and
\* its reply recorded, in that order, in the history it fetched.
C9_StepOrder ==
  [][/\ \A p \in Procs :
          (kind[p] = "turn" /\ InFlight(p) /\ pc'[p] # pc[p]) =>
             \/ pc'[p] = "FAILED"
             \/ Stage(pc'[p]) \in {Stage(pc[p]), Stage(pc[p]) + 1}
     /\ \A o \in DOMAIN heap :
          heap'[o] # heap[o] =>
            \E p \in Procs : /\ ref[p] = o
                             /\ Stage(pc[p]) = 3
                             /\ reply[p] \in Replies
                             /\ pc'[p] # pc[p]
     /\ \A p \in Procs :
          pc'[p] = "DONE" =>
            \E i \in DOMAIN heap'[ref'[p]] :
              /\ heap'[ref'[p]][i] = HumanMessage(p)'
              /\ \E j \in DOMAIN heap'[ref'[p]] :
                   j > i /\ heap'[ref'[p]][j] = AIMessage(p)']_vars

\* An invocation has gone through every state and is DONE.
C9_Witness ==
  \E p \in Procs :
    /\ pc[p] = "DONE"
    /\ reply[p] \in Replies
    /\ Recorded(call[p])

\* ---- C10 ----------------------------------------------------------------
\* C10: a call whose key is not in the store goes on to create a history
\* (never to a failure); the creating step leaves the key mapped to an empty
\* history; and get_chat_history then returns a history to its caller.
C10_MissCreates ==
  [][\A p \in Procs :
       /\ (pc[p] = "START" /\ pc'[p] # pc[p] /\ store[key[p]] = 0) =>
            pc'[p] = "GET_INSERT"
       /\ (pc[p] = "GET_INSERT" /\ pc'[p] # pc[p]) =>
            /\ pc'[p] = "GET_RETURN"
            /\ store'[key[p]] \in DOMAIN heap'
            /\ heap'[store'[key[p]]] = <<>>
       /\ (pc[p] = "GET_RETURN" /\ pc'[p] # pc[p]) =>
            /\ pc'[p] \in {"RETURNED", "HISTORY_FETCHED"}
            /\ ref'[p] \in DOMAIN heap']_vars

\* The first call on a key got a new, empty history and went on.
C10_Witness ==
  \E p \in Procs :
    /\ pc[p] \in {"RETURNED", "HISTORY_FETCHED"}
    /\ before[p] = <<>>
    /\ ref[p] = store[key[p]]
    /\ ref[p] # 0
    /\ heap[ref[p]] = <<>>

\* ---- C11 ----------------------------------------------------------------
\* C11: a call of get_chat_history that finds its key present changes neither
\* the store nor any history and returns the history the store holds; and
\* calls made one after another on a key all got the same history object
\* (hence the same messages), which is the one the store holds.
C11_IdempotentLookup ==
  [][\A p \in Procs :
       /\ (pc[p] = "START" /\ pc'[p] # pc[p] /\ store[key[p]] # 0) =>
            /\ pc'[p] = "GET_RETURN"
            /\ store' = store
            /\ heap' = heap
       /\ (pc[p] = "GET_RETURN" /\ pc'[p] # pc[p]) =>
            /\ store' = store
            /\ heap' = heap
            /\ ref'[p] = store[key[p]]
       /\ \A q \in Procs :
            ( /\ key'[p] = key'[q]
              /\ key'[p] \in Keys \ overlap'
              /\ ref'[p] # 0
              /\ ref'[q] # 0 ) =>
               /\ ref'[p] = ref'[q]
               /\ ref'[p] = store'[key'[p]]]_vars

\* Two bare lookups of one key, one after the other, returned the same
\* history.
C11_Witness ==
  \E p, q \in Procs :
    /\ p # q
    /\ pc[p] = "RETURNED"
    /\ pc[q] = "RETURNED"
    /\ key[p] = key[q]
    /\ key[p] \notin overlap
    /\ ref[p] = ref[q]
    /\ ref[p] # 0
    /\ Len(heap) = 1

\* ---- C12 ----------------------------------------------------------------
\* C12: a call submits its prompt to the model at most once: not at all
\* before the prompt is assembled, exactly once when the model has answered;
\* a failed invocation made one model call, holds no reply and has handed its
\* caller the failure.
C12_OneModelCall ==
  \A p \in Procs :
    /\ invoked[p] <= 1
    /\ (InFlight(p) /\ Stage(pc[p]) \in 0..2) => invoked[p] = 0
    /\ (kind[p] = "turn" /\ Stage(pc[p]) \in 3..5) => invoked[p] = 1
    /\ pc[p] = "FAILED" =>
         /\ invoked[p] = 1
         /\ reply[p] = NoReply
         /\ calls[call[p]].result = "failed"

\* The model failed and the invocation ended there, after its one model call.
C12_Witness ==
  \E p \in Procs :
    /\ pc[p] = "FAILED"
    /\ invoked[p] = 1
    /\ ~Recorded(call[p])

\* ---- C13 ----------------------------------------------------------------
\* C13: a call in progress can always take its next step, whatever position
\* the other callers are in; in particular an invocation on one key never
\* waits for an invocation on another key.
C13_NeverBlocked ==
  \A p \in Procs : InFlight(p) => ENABLED Step(p)

\* Invocations on two different keys are in progress together, one waiting
\* for the model, the other halfway through recording its pair.
C13_Witness ==
  \E p, q \in Procs :
    /\ key[p] # key[q]
    /\ kind[p] = "turn"
    /\ pc[p] = "PROMPT_ASSEMBLED"
    /\ pc[q] = "USER_APPENDED"
    /\ ENABLED Step(p)
    /\ ENABLED Step(q)

\* ---- C14 ----------------------------------------------------------------
\* C14: the step that inserts a history for a key leaves every other key's
\* entry as it was (the same object, hence still returned by a lookup) and
\* leaves the messages of every existing history object as they were.
C14_InsertFrame ==
  [][\A p \in Procs :
       (pc[p] = "GET_INSERT" /\ pc'[p] # pc[p]) =>
         /\ \A k \in Keys \ {key[p]} :
              /\ store'[k] = store[k]
              /\ Messages(k)' = Messages(k)
         /\ \A o \in DOMAIN heap : heap'[o] = heap[o]]_vars

\* A history has just been inserted for one key while the other key already
\* held a recorded turn.
C14_Witness ==
  \E p \in Procs :
    /\ pc[p] = "GET_RETURN"
    /\ store[key[p]] = Len(heap)
    /\ heap[Len(heap)] = <<>>
    /\ \E k \in Keys \ {key[p]} : Len(Messages(k)) = 2

\* ---- C15 ----------------------------------------------------------------
\* g begins with h.
IsPrefix(h, g) ==
  /\ Len(h) <= Len(g)
  /\ \A i \in DOMAIN h : g[i] = h[i]

\* C15: across every step, the history stored for a key before the step is a
\* prefix of the history stored for that key after the step.
C15_AppendOnly ==
  [][\A k \in Keys : IsPrefix(Messages(k), Messages(k)')]_vars

\* ---- C16 ----------------------------------------------------------------
\* C16: an invocation with the empty input gets a prompt ending in a human
\* message without text, its model call can answer, and once its append is
\* complete the history it fetched holds its human message with empty content
\* and, after it, its reply; when no other call ran on the key these two are
\* the last messages of the key's history.
C16_EmptyInput ==
  \A p \in Procs :
    (kind[p] = "turn" /\ input[p] = "") =>
      /\ pc[p] = "PROMPT_ASSEMBLED" =>
           /\ prompt[p][Len(prompt[p])] = Msg("human", "", call[p])
           /\ ENABLED ModelReply(p)
      /\ pc[p] \in {"HISTORY_UPDATED", "DONE"} =>
           /\ \E i, j \in DOMAIN heap[ref[p]] :
                /\ i < j
                /\ heap[ref[p]][i] = Msg("human", "", call[p])
                /\ heap[ref[p]][j] = Msg("ai", reply[p], call[p])
           /\ (pc[p] = "HISTORY_UPDATED" /\ key[p] \notin overlap) =>
                /\ Len(Messages(key[p])) = Len(before[p]) + 2
                /\ Messages(key[p])[Len(before[p]) + 1]
                     = Msg("human", "", call[p])
                /\ Messages(key[p])[Len(before[p]) + 2]
                     = Msg("ai", reply[p], call[p])

\* An invocation with the empty input is done and the key's history is its
\* empty human message and the reply.
C16_Witness ==
  \E p \in Procs :
    /\ pc[p] = "DONE"
    /\ input[p] = ""
    /\ Len(Messages(key[p])) = 2
    /\ Messages(key[p])[1].role = "human"
    /\ Messages(key[p])[1].content = ""
    /\ Messages(key[p])[2].content = reply[p]

\* ---- C17 ----------------------------------------------------------------
\* The ai messages created by call c, wherever they are recorded.
AiRecordedBy(c) ==
  (UNION {{heap[o][i] : i \in DOMAIN heap[o]} : o \in DOMAIN heap})
    \cap {Msg("ai", r, c) : r \in Replies \cup {NoReply}}

\* C17: the reply handed to the caller of a completed invocation is the
\* content of the one ai message that invocation recorded; and every recorded
\* ai message carries the reply its invocation returned, or is about to
\* return in its very next step.
C17_ReplyIsRecorded ==
  /\ \A c \in DOMAIN calls :
       Completed(c) => AiRecordedBy(c) = {Msg("ai", calls[c].result, c)}
  /\ \A o \in DOMAIN heap : \A i \in DOMAIN heap[o] :
       heap[o][i].role = "ai" =>
         \/ calls[heap[o][i].call].result = heap[o][i].content
         \/ \E p \in Procs : /\ call[p] = heap[o][i].call
                             /\ pc[p] = "HISTORY_UPDATED"
                             /\ reply[p] = heap[o][i].content

\* Two invocations have returned different replies, each recorded.
C17_Witness ==
  \E c, d \in DOMAIN calls :
    /\ Completed(c)
    /\ Completed(d)
    /\ calls[c].result # calls[d].result
    /\ AiRecordedBy(c) = {Msg("ai", calls[c].result, c)}
    /\ AiRecordedBy(d) = {Msg("ai", calls[d].result, d)}

\* ---- C18 ----------------------------------------------------------------
\* The session ids that are in the store.
KeysPresent == {k \in Keys : store[k] # 0}

\* C18: the store starts with no key; no step removes a key; a key is in the
\* store only if some call was made with it; and the key of every call that
\* is past get_chat_history's insertion or has ended, a failed invocation
\* included, is in the store.
C18_KeysOnlyGrow ==
  /\ KeysPresent = {}
  /\ [][/\ KeysPresent \subseteq KeysPresent'
        /\ \A k \in KeysPresent' :
             \E i \in DOMAIN calls' : calls'[i].key = k
        /\ \A i \in DOMAIN calls' :
             calls'[i].result # "running" => calls'[i].key \in KeysPresent'
        /\ \A p \in Procs :
             pc'[p] \notin {"IDLE", "START", "GET_INSERT"} =>
               key'[p] \in KeysPresent']_vars

\* An invocation on a new key failed at the model; the key's empty history is
\* in the store.
C18_Witness ==
  \E p \in Procs :
    /\ pc[p] = "FAILED"
    /\ before[p] = <<>>
    /\ key[p] \in KeysPresent
    /\ Messages(key[p]) = <<>>
    /\ Cardinality(KeysPresent) = 1

\* ---- C19 ----------------------------------------------------------------
\* C19: when every thread keeps being scheduled and the model always answers,
\* no invocation stays in progress forever: every caller is again and again
\* at rest, and a caller at rest after an invocation finds it DONE or FAILED.
C19_Terminates ==
  \A p \in Procs :
    []<>( /\ ~InFlight(p)
          /\ (kind[p] = "turn" /\ call[p] > 0) => pc[p] \in {"DONE", "FAILED"} )

\* Two invocations that ran together on one key have both ended, one DONE and
\* one FAILED.
C19_Witness ==
  \E p, q \in Procs :
    /\ pc[p] = "DONE"
    /\ pc[q] = "FAILED"
    /\ key[p] = key[q]
    /\ key[p] \in overlap

====
